---- MODULE Spec2Model ----
(***************************************************************************)
(* Model of manage_opencode_projects.py: a launcher that parses its        *)
(* command line, resolves the bun executable, builds one command vector,   *)
(* runs it as a child process and exits with the child's return code.      *)
(*                                                                         *)
(* Strings are sequences of one-character strings, so that the string      *)
(* operations of the program (prefix tests of argparse, the splitting and  *)
(* joining done by pathlib.Path, the "~" test of expanduser) are computed  *)
(* and not assumed.                                                        *)
(***************************************************************************)
EXTENDS Integers, Sequences, FiniteSets, TLC

(***************************************************************************)
(* Bounds of the model.                                                    *)
(***************************************************************************)
\* longest command line (number of tokens after the program name)
MaxArgs == 3

(***************************************************************************)
(* String constants.                                                       *)
(***************************************************************************)
S_sep      == <<"-", "-">>
S_root     == <<"-", "-", "r", "o", "o", "t">>
S_bun      == <<"-", "-", "b", "u", "n">>
S_help     == <<"-", "-", "h", "e", "l", "p">>
S_h        == <<"-", "h">>
S_run      == <<"r", "u", "n">>
S_tui      == <<"t", "u", "i">>
\* tokens used only as inputs
S_r        == <<"-", "-", "r">>
S_v        == <<"-", "-", "v">>
S_x        == <<"x">>
S_dotx     == <<".", "/", "x">>
S_homex    == <<"~", "/", "x">>
S_absx     == <<"/", "x">>
S_user     == <<"~", "u">>

\* the home directory of the invoking user (Path.home(), "~")
HomeDir    == <<"/", "h">>
\* what shutil.which("bun") returns when bun is on the search path
WhichBun   == <<"/", "b", "/", "b", "u", "n">>

\* the tokens a command line is drawn from
ArgTokens == {S_sep, S_root, S_bun, S_r, S_h, S_v,
              S_x, S_dotx, S_homex, S_absx, S_user}

\* exit codes a child may return, and signals that may terminate it
ChildExitCodes == {0, 1, 3, 255}
ChildSignals   == {9, 15}

(***************************************************************************)
(* String helpers.                                                         *)
(***************************************************************************)
StartsWith(s, p) == Len(s) >= Len(p) /\ SubSeq(s, 1, Len(p)) = p

Drop(s, n) == SubSeq(s, n + 1, Len(s))

RECURSIVE Split(_, _)
\* s.split(c): the pieces of s between occurrences of the character c
Split(s, c) ==
    IF \A i \in 1..Len(s) : s[i] # c
    THEN <<s>>
    ELSE LET k == CHOOSE i \in 1..Len(s) :
                      s[i] = c /\ \A j \in 1..(i - 1) : s[j] # c
         IN  <<SubSeq(s, 1, k - 1)>> \o Split(Drop(s, k), c)

RECURSIVE Join(_, _)
\* c.join(parts)
Join(parts, c) ==
    IF parts = <<>> THEN <<>>
    ELSE IF Len(parts) = 1 THEN parts[1]
    ELSE parts[1] \o <<c>> \o Join(Tail(parts), c)

RECURSIVE Filter(_, _)
Filter(seq, bad) ==
    IF seq = <<>> THEN <<>>
    ELSE IF seq[1] \in bad THEN Filter(Tail(seq), bad)
    ELSE <<seq[1]>> \o Filter(Tail(seq), bad)

(***************************************************************************)
(* pathlib.Path (PurePosixPath): a path is its root and its parts.         *)
(***************************************************************************)
\* None where a Path is expected
None == [none |-> TRUE]
\* None where a string is expected, and the command that was never built
NoString == <<>>
NoCmd == <<>>

\* PurePosixPath splitroot: "/" is the root, exactly two slashes are kept
PathRoot(s) ==
    IF ~StartsWith(s, <<"/">>) THEN <<>>
    ELSE IF StartsWith(s, <<"/", "/">>) /\ ~StartsWith(s, <<"/", "/", "/">>)
         THEN <<"/", "/">>
    ELSE <<"/">>

\* Path(s): empty and "." components are dropped
Path(s) ==
    [root  |-> PathRoot(s),
     parts |-> Filter(Split(s, "/"), {<<>>, <<".">>})]

\* str(path)
PathStr(p) ==
    IF p.root = <<>> /\ p.parts = <<>> THEN <<".">>
    ELSE p.root \o Join(p.parts, "/")

\* os.path.expanduser of a first component "~" or "~user": the home
\* directory, or the component unchanged when the user is unknown
UserHome(part) ==
    IF part = <<"~">> THEN HomeDir ELSE part

\* Path.expanduser(): None stands for the RuntimeError
\* "Could not determine home directory."
ExpandUser(p) ==
    IF p.root = <<>> /\ p.parts # <<>> /\ StartsWith(p.parts[1], <<"~">>)
    THEN LET homedir == UserHome(p.parts[1])
         IN  IF StartsWith(homedir, <<"~">>) THEN None
             ELSE Path(Join(<<homedir>> \o Tail(p.parts), "/"))
    ELSE p

DEFAULT_ROOT ==
    Path(HomeDir \o <<"/", ".", "l", "o", "c", "a", "l",
                      "/", "s", "h", "a", "r", "e",
                      "/", "o", "p", "e", "n", "c", "o", "d", "e">>)

(***************************************************************************)
(* parse_args: argparse with the options -h/--help, --root, --bun and the  *)
(* positional tui_args of nargs=REMAINDER.                                 *)
(***************************************************************************)
OptionStrings == {S_h, S_help, S_root, S_bun}

Dest(option) ==
    IF option = S_root THEN "root"
    ELSE IF option = S_bun THEN "bun"
    ELSE "help"

\* the option strings a token may stand for: long options can be
\* abbreviated to any prefix (the three long options differ in their third
\* character, so an abbreviation is never ambiguous)
OptionCandidates(tok) ==
    IF StartsWith(tok, S_sep)
    THEN {o \in OptionStrings : StartsWith(o, tok)}
    ELSE {o \in OptionStrings : o = SubSeq(tok, 1, 2) \/ StartsWith(o, tok)}

\* argparse's classification of one token in front of the separator:
\* "positional", the destination of the option it names, or "unknown"
ParseOptional(tok) ==
    IF ~StartsWith(tok, <<"-">>) THEN "positional"
    ELSE IF tok \in OptionStrings THEN Dest(tok)
    ELSE IF Len(tok) = 1 THEN "positional"
    ELSE IF OptionCandidates(tok) # {}
         THEN Dest(CHOOSE o \in OptionCandidates(tok) : TRUE)
    ELSE "unknown"

\* a token that can be the value of --root or --bun
IsValue(tok) == tok # S_sep /\ ParseOptional(tok) = "positional"

RECURSIVE Consume(_, _, _, _)
\* the parse loop from token i on: options are consumed until the first
\* token that is the separator or a positional, where REMAINDER takes all
\* that is left; ns is the namespace so far, extras whether an unknown
\* option was seen (reported once parsing is over)
Consume(argv, i, ns, extras) ==
    IF i > Len(argv) \/ argv[i] = S_sep
                     \/ ParseOptional(argv[i]) = "positional"
    THEN IF extras
         THEN [status |-> "usage", ns |-> ns]
         ELSE [status |-> "ok",
               ns |-> [ns EXCEPT !.tui_args = SubSeq(argv, i, Len(argv))]]
    ELSE LET dest == ParseOptional(argv[i])
         IN  IF dest = "help" THEN [status |-> "help", ns |-> ns]
             ELSE IF dest = "unknown" THEN Consume(argv, i + 1, ns, TRUE)
             ELSE IF i + 1 <= Len(argv) /\ IsValue(argv[i + 1])
                  THEN Consume(argv, i + 2,
                               [ns EXCEPT ![dest] = Path(argv[i + 1])],
                               extras)
             ELSE [status |-> "usage", ns |-> ns]

NamespaceDefaults == [root |-> DEFAULT_ROOT, bun |-> None, tui_args |-> <<>>]

\* variant: a usage error is swallowed and the defaults are used
parse_args_SwallowUsage(argv) ==
    LET r == Consume(argv, 1, NamespaceDefaults, FALSE)
    IN  IF r.status = "usage"
        THEN [status |-> "ok", ns |-> NamespaceDefaults]
        ELSE r

parse_args(argv) == Consume(argv, 1, NamespaceDefaults, FALSE)

(***************************************************************************)
(* find_bun and launch_tui.                                                *)
(***************************************************************************)
\* variant: falls back to the bare name when bun is not found
find_bun_Fallback(explicit, bun_path) ==
    IF explicit # None THEN PathStr(explicit)
    ELSE IF bun_path # NoString THEN bun_path
    ELSE <<"b", "u", "n">>

\* find_bun: the string it returns, NoString for SystemExit(message);
\* bun_path is the result of shutil.which("bun"), NoString when bun is not
\* on the search path (a Path object is always true, None and "" are false)
find_bun(explicit, bun_path) ==
    IF explicit # None THEN PathStr(explicit)
    ELSE IF bun_path # NoString THEN bun_path
    ELSE NoString

RECURSIVE NormalizeExtraArgs_StripAll(_)
\* variant: every leading separator is dropped
NormalizeExtraArgs_StripAll(extra_args) ==
    IF extra_args # <<>> /\ extra_args[1] = S_sep
    THEN NormalizeExtraArgs_StripAll(Tail(extra_args))
    ELSE extra_args

\* variant: the separator is dropped wherever it stands
NormalizeExtraArgs_DropEvery(extra_args) == Filter(extra_args, {S_sep})

\* "drop leading -- if present"
NormalizeExtraArgs(extra_args) ==
    IF extra_args # <<>> /\ Len(extra_args) > 0 /\ extra_args[1] = S_sep
    THEN Tail(extra_args)
    ELSE extra_args

\* variant: the pass-through arguments are put in front of the root
BuildCmd_ExtrasFirst(root, bun_exe, extra_args) ==
    IF ExpandUser(root) = None THEN NoCmd
    ELSE <<bun_exe, S_run, S_tui, S_sep>>
         \o NormalizeExtraArgs(extra_args)
         \o <<S_root, PathStr(ExpandUser(root))>>

\* the command vector of launch_tui; NoCmd when root.expanduser() raises
BuildCmd(root, bun_exe, extra_args) ==
    IF ExpandUser(root) = None THEN NoCmd
    ELSE <<bun_exe, S_run, S_tui, S_sep, S_root, PathStr(ExpandUser(root))>>
         \o NormalizeExtraArgs(extra_args)

\* variant: any non-zero return code becomes status 1
ExitStatus_Truthy(n) == IF n = 0 THEN 0 ELSE 1

\* variant: a signal is reported the way a shell does, as 128 + signal
ExitStatus_Shell(n) == IF n < 0 THEN 128 - n ELSE n

\* sys.exit(n): the exit status of a process is one byte
ExitStatus(n) == n % 256

(***************************************************************************)
(* The run of the launcher.                                                *)
(***************************************************************************)
VARIABLES
    argv,         \* the command line (sys.argv[1:])
    which,        \* what shutil.which("bun") finds: a string or NoString
    pc,           \* position of main: "parse_args", "find_bun",
                  \* "launch_tui", "wait" (inside subprocess.run), "exit"
    args,         \* the namespace returned by parse_args, None before
    bun_exe,      \* the string returned by find_bun, NoString before
    cmd,          \* the command vector built by launch_tui, NoCmd before
    attempts,     \* number of calls of subprocess.run
    spawned,      \* number of child processes started
    child,        \* "none", "running" or "exited"
    returncode,   \* process.returncode once the child has exited
    outcome,      \* how the launcher ended: "usage", "help", "no_bun",
                  \* "exception" or "returned"; "" while it runs
    exit_status   \* exit status of the launcher, NoStatus while it runs

vars == <<argv, which, pc, args, bun_exe, cmd, attempts, spawned, child,
          returncode, outcome, exit_status>>

NoStatus == -1

RECURSIVE SeqsUpTo(_, _)
\* the sequences over S of length at most n
SeqsUpTo(S, n) ==
    IF n = 0 THEN {<<>>}
    ELSE LET shorter == SeqsUpTo(S, n - 1)
         IN  shorter \cup {Append(q, t) : q \in shorter, t \in S}

Init ==
    /\ argv \in SeqsUpTo(ArgTokens, MaxArgs)
    /\ which \in {NoString, WhichBun}
    /\ pc = "parse_args"
    /\ args = None
    /\ bun_exe = NoString
    /\ cmd = NoCmd
    /\ attempts = 0
    /\ spawned = 0
    /\ child = "none"
    /\ returncode = 0
    /\ outcome = ""
    /\ exit_status = NoStatus

\* the launcher terminates
Exit(how, status) ==
    /\ pc' = "exit"
    /\ outcome' = how
    /\ exit_status' = status

\* main: args = parse_args(argv); a usage error exits with status 2 and
\* a help request with status 0
ParseArgs ==
    /\ pc = "parse_args"
    /\ LET r == parse_args(argv)
       IN  IF r.status = "ok"
           THEN /\ args' = r.ns
                /\ pc' = "find_bun"
                /\ UNCHANGED <<outcome, exit_status>>
           ELSE /\ Exit(r.status, IF r.status = "help" THEN 0 ELSE 2)
                /\ UNCHANGED args
    /\ UNCHANGED <<argv, which, bun_exe, cmd, attempts, spawned, child,
                   returncode>>

\* main: bun_exe = find_bun(args.bun); SystemExit(message) is status 1
FindBun ==
    /\ pc = "find_bun"
    /\ LET found == find_bun(args.bun, which)
       IN  IF found = NoString
           THEN /\ Exit("no_bun", 1)
                /\ UNCHANGED bun_exe
           ELSE /\ bun_exe' = found
                /\ pc' = "launch_tui"
                /\ UNCHANGED <<outcome, exit_status>>
    /\ UNCHANGED <<argv, which, args, cmd, attempts, spawned, child,
                   returncode>>

\* launch_tui: root.expanduser() raises, the traceback ends the launcher
\* with status 1 before any command is built
LaunchTuiRaises ==
    /\ pc = "launch_tui"
    /\ BuildCmd(args.root, bun_exe, args.tui_args) = NoCmd
    /\ Exit("exception", 1)
    /\ UNCHANGED <<argv, which, args, bun_exe, cmd, attempts, spawned,
                   child, returncode>>

\* launch_tui: the command is built and subprocess.run starts the child
LaunchTui ==
    /\ pc = "launch_tui"
    /\ BuildCmd(args.root, bun_exe, args.tui_args) # NoCmd
    /\ cmd' = BuildCmd(args.root, bun_exe, args.tui_args)
    /\ attempts' = attempts + 1
    /\ spawned' = spawned + 1
    /\ child' = "running"
    /\ pc' = "wait"
    /\ UNCHANGED <<argv, which, args, bun_exe, returncode, outcome,
                   exit_status>>

\* launch_tui: the command is built but subprocess.run cannot execute it
\* (OSError: no such file, not executable); the traceback ends the
\* launcher with status 1
LaunchTuiSpawnFails ==
    /\ pc = "launch_tui"
    /\ BuildCmd(args.root, bun_exe, args.tui_args) # NoCmd
    /\ cmd' = BuildCmd(args.root, bun_exe, args.tui_args)
    /\ attempts' = attempts + 1
    /\ Exit("exception", 1)
    /\ UNCHANGED <<argv, which, args, bun_exe, spawned, child, returncode>>

\* the child exits with a code of its own
ChildExits ==
    /\ child = "running"
    /\ \E code \in ChildExitCodes : returncode' = code
    /\ child' = "exited"
    /\ UNCHANGED <<argv, which, pc, args, bun_exe, cmd, attempts, spawned,
                   outcome, exit_status>>

\* the child is terminated by a signal: subprocess reports -signal
ChildKilled ==
    /\ child = "running"
    /\ \E sig \in ChildSignals : returncode' = 0 - sig
    /\ child' = "exited"
    /\ UNCHANGED <<argv, which, pc, args, bun_exe, cmd, attempts, spawned,
                   outcome, exit_status>>

\* variant: a failed child is started again
Return_Retry ==
    /\ pc = "wait"
    /\ child = "exited"
    /\ IF returncode # 0
       THEN /\ pc' = "launch_tui"
            /\ child' = "none"
            /\ UNCHANGED <<outcome, exit_status>>
       ELSE /\ Exit("returned", ExitStatus(returncode))
            /\ UNCHANGED child
    /\ UNCHANGED <<argv, which, args, bun_exe, cmd, attempts, spawned,
                   returncode>>

\* subprocess.run returns once the child has exited; launch_tui and main
\* return process.returncode and sys.exit(main()) ends the launcher
Return ==
    /\ pc = "wait"
    /\ child = "exited"
    /\ Exit("returned", ExitStatus(returncode))
    /\ UNCHANGED <<argv, which, args, bun_exe, cmd, attempts, spawned,
                   child, returncode>>

Next ==
    \/ ParseArgs
    \/ FindBun
    \/ LaunchTuiRaises
    \/ LaunchTui
    \/ LaunchTuiSpawnFails
    \/ ChildExits
    \/ ChildKilled
    \/ Return

Spec == Init /\ [][Next]_vars

TypeOK ==
    /\ pc \in {"parse_args", "find_bun", "launch_tui", "wait", "exit"}
    /\ child \in {"none", "running", "exited"}
    /\ outcome \in {"", "usage", "help", "no_bun", "exception", "returned"}
    /\ exit_status \in {NoStatus} \cup 0..255
    /\ attempts \in 0..1
    /\ spawned \in 0..1

(***************************************************************************)
(* Properties.                                                             *)
(***************************************************************************)
Terminated == pc = "exit"

\* the arguments placed after the root path in the command
CmdSuffix == SubSeq(cmd, 7, Len(cmd))

IsAbsolute(s) == StartsWith(s, <<"/">>)

\* C1 as stated: whenever a child was spawned, the exit status of the
\* launcher equals the return code of the child unchanged, a return code
\* reported for termination by a signal included.
C1_ExitStatusIsReturnCode ==
    (Terminated /\ spawned = 1) => exit_status = returncode

\* C1 amended: whenever a child was spawned, the exit status of the
\* launcher is the child's exit code unchanged when the child exited
\* (0..255), and 256 - N when the child was terminated by signal N
\* (return code -N).
C1_ExitStatusIsReturnCodeMod256 ==
    (Terminated /\ spawned = 1) =>
        /\ returncode >= 0 => exit_status = returncode
        /\ returncode < 0 => exit_status = 256 + returncode

C1_Witness ==
    Terminated /\ spawned = 1 /\ returncode = 3 /\ exit_status = 3

\* no token of the command line names the option --bun
C2_NoBunFlag == \A i \in 1..Len(argv) : ParseOptional(argv[i]) # "bun"

\* C2 as stated: when --bun is omitted and bun is not on the search path,
\* the launcher terminates with status 1 and never spawns a child.
C2_NoBunExitsOne ==
    (C2_NoBunFlag /\ which = NoString) =>
        /\ attempts = 0 /\ spawned = 0
        /\ Terminated => exit_status = 1

\* C2 amended: when the command line parses, --bun is omitted and bun is
\* not on the search path, the launcher terminates with status 1; and
\* whether or not the command line parses, no command is built or executed
\* and no child is spawned in such a run.
C2_NoBunAbortsBeforeSpawn ==
    /\ (C2_NoBunFlag /\ which = NoString) =>
           attempts = 0 /\ spawned = 0 /\ child = "none" /\ cmd = NoCmd
    /\ (args # None /\ args.bun = None /\ which = NoString) =>
           /\ attempts = 0 /\ spawned = 0 /\ child = "none" /\ cmd = NoCmd
           /\ pc \in {"find_bun", "exit"}
           /\ Terminated => exit_status = 1 /\ outcome = "no_bun"

C2_Witness ==
    /\ Terminated /\ which = NoString
    /\ args # None /\ args.bun = None /\ args.tui_args # <<>>
    /\ exit_status = 1 /\ spawned = 0

\* C3 as stated: in the command, --root is immediately followed by the
\* absolute, expansion-resolved form of the root path, for every valid
\* --root value (absolute, relative or with the home shorthand).
C3_RootIsAbsolute ==
    cmd # NoCmd =>
        /\ cmd[5] = S_root
        /\ IsAbsolute(cmd[6])
        /\ ~StartsWith(cmd[6], <<"~">>)

\* the positions of the command line that name the option --bun
C4_BunFlags == {i \in 1..Len(argv) : ParseOptional(argv[i]) = "bun"}

\* C4 as stated: when --bun <path> is supplied, the first element of the
\* executed command is that path verbatim, whatever the search path holds.
C4_BunVerbatim ==
    \A i \in 1..Len(argv) :
        (cmd # NoCmd /\ args.bun # None /\ C4_BunFlags = {i}) =>
            cmd[1] = argv[i + 1]

\* C5: when the pass-through list starts with the separator, the arguments
\* after the root path are that list without its first token; a second
\* leading separator and later separators are forwarded.
C5_LeadingSeparatorStrippedOnce ==
    /\ (cmd # NoCmd /\ args.tui_args # <<>> /\ args.tui_args[1] = S_sep) =>
           CmdSuffix = Tail(args.tui_args)
    /\ (cmd # NoCmd /\ argv # <<>> /\ argv[1] = S_sep) =>
           CmdSuffix = Tail(argv)

C5_Witness ==
    /\ cmd # NoCmd
    /\ args.tui_args = <<S_sep, S_sep, S_x>>
    /\ CmdSuffix = <<S_sep, S_x>>

\* C6: when the pass-through list is empty or does not start with the
\* separator, the arguments after the root path are exactly that list.
C6_NoSeparatorForwardedUnchanged ==
    (cmd # NoCmd /\ (args.tui_args = <<>> \/ args.tui_args[1] # S_sep)) =>
        /\ CmdSuffix = args.tui_args
        /\ Len(cmd) = 6 + Len(args.tui_args)

C6_Witness ==
    /\ cmd # NoCmd
    /\ args.tui_args = <<S_x, S_sep, S_v>>
    /\ CmdSuffix = <<S_x, S_sep, S_v>>

\* C7 as stated: in every run in which the executable is resolved, exactly
\* one child is spawned over the whole run, and the launcher does not
\* terminate before that child has exited.
C7_ExactlyOneChild ==
    /\ bun_exe # NoString => spawned <= 1
    /\ (Terminated /\ bun_exe # NoString) => spawned = 1 /\ child = "exited"

\* C7 amended: in every run in which the executable is resolved, the
\* launcher calls the spawn at most once and spawns at most one child,
\* never a second one whatever the child returns; it spawns exactly one
\* unless the expansion of the root or the spawn itself raises, which ends
\* the launcher with status 1; and it does not terminate before a spawned
\* child has exited.
C7_AtMostOneChildAndWaited ==
    /\ attempts <= 1 /\ spawned <= attempts
    /\ Terminated => child # "running"
    /\ (Terminated /\ bun_exe # NoString) =>
           \/ spawned = 1 /\ child = "exited" /\ outcome = "returned"
           \/ spawned = 0 /\ outcome = "exception" /\ exit_status = 1

C7_Witness ==
    /\ Terminated /\ bun_exe # NoString
    /\ spawned = 1 /\ child = "exited" /\ returncode = 1

\* C8 as stated: a terminated launcher has either status 1 and no child
\* spawned, or the exact exit code of the child it spawned.
C8_TwoOutcomes ==
    Terminated =>
        \/ exit_status = 1 /\ spawned = 0
        \/ spawned = 1 /\ exit_status = returncode

\* C8 amended: a terminated launcher ended in exactly one of these ways:
\* status 2 and no child (usage error); status 0 and no child (help
\* requested); status 1 and no child (bun not found, or the expansion of
\* the root or the spawn raised); or, with the one child it spawned
\* exited, the child's return code modulo 256.
C8_FourOutcomes ==
    Terminated =>
        LET usage   == outcome = "usage" /\ exit_status = 2 /\ spawned = 0
            help    == outcome = "help" /\ exit_status = 0 /\ spawned = 0
            aborted == /\ outcome \in {"no_bun", "exception"}
                       /\ exit_status = 1 /\ spawned = 0
            relayed == /\ outcome = "returned" /\ spawned = 1
                       /\ child = "exited"
                       /\ exit_status = (returncode + 256) % 256
        IN  Cardinality({b \in {<<1, usage>>, <<2, help>>, <<3, aborted>>,
                                <<4, relayed>>} : b[2]}) = 1

C8_Witness ==
    Terminated /\ outcome = "usage" /\ exit_status = 2 /\ spawned = 0

\* the pass-through arguments as the command is to carry them
C9_PassThrough(extra_args) ==
    IF extra_args # <<>> /\ extra_args[1] = S_sep
    THEN SubSeq(extra_args, 2, Len(extra_args))
    ELSE extra_args

\* C9: the command is the executable, the fixed subcommand, a separator,
\* the root argument and then the pass-through arguments as its final
\* suffix; what precedes the pass-through arguments depends on the
\* executable and the root only.
C9_CommandLayout ==
    cmd # NoCmd =>
        /\ cmd[1] = bun_exe
        /\ <<cmd[2], cmd[3]>> = <<S_run, S_tui>>
        /\ cmd[4] = S_sep
        /\ cmd[5] = S_root
        /\ cmd[6] = PathStr(ExpandUser(args.root))
        /\ CmdSuffix = C9_PassThrough(args.tui_args)
        /\ Len(cmd) = 6 + Len(C9_PassThrough(args.tui_args))
        /\ \A other \in SeqsUpTo({S_sep, S_x}, 2) :
               LET c == BuildCmd(args.root, bun_exe, other)
               IN  /\ SubSeq(c, 1, 6) = SubSeq(cmd, 1, 6)
                   /\ SubSeq(c, 7, Len(c)) = C9_PassThrough(other)

C9_Witness ==
    /\ cmd # NoCmd
    /\ args.root # DEFAULT_ROOT
    /\ Len(cmd) > 6
    /\ cmd[Len(cmd)] = args.tui_args[Len(args.tui_args)]

\* a token that looks like an option
C10_IsFlag(tok) == StartsWith(tok, <<"-">>) /\ Len(tok) > 1 /\ tok # S_sep

\* a token that names --root or --bun, in full or abbreviated
C10_TakesValue(tok) ==
    C10_IsFlag(tok) /\ (StartsWith(S_root, tok) \/ StartsWith(S_bun, tok))

\* a token that names the help option
C10_IsHelp(tok) ==
    tok = S_h \/ (C10_IsFlag(tok) /\ StartsWith(S_help, tok))

\* a flag that names no option of the launcher
C10_IsUnknown(tok) ==
    C10_IsFlag(tok) /\ ~C10_TakesValue(tok) /\ ~C10_IsHelp(tok)

C10_BeforeSeparator(i) == \A j \in 1..(i - 1) : argv[j] # S_sep

\* every token in front of position i is a flag or the value that
\* directly follows --root or --bun
C10_BeforePassThrough(i) ==
    \A j \in 1..(i - 1) :
        /\ argv[j] # S_sep
        /\ C10_IsFlag(argv[j]) \/ (j > 1 /\ C10_TakesValue(argv[j - 1]))

\* C10 as stated: a flag other than --root and --bun (here: one that names
\* no option at all) anywhere in front of the separator, also after a
\* non-flag token, makes the launcher fail with a usage error without
\* resolving an executable or spawning a child.
C10_AnyOtherFlagIsUsageError ==
    \A i \in 1..Len(argv) :
        (C10_IsUnknown(argv[i]) /\ C10_BeforeSeparator(i)) =>
            /\ bun_exe = NoString /\ spawned = 0
            /\ pc # "parse_args" => Terminated /\ outcome = "usage"

\* C10 amended: a flag that is none of --root, --bun, -h, --help or an
\* abbreviation of these, standing in front of the separator and of the
\* first pass-through token, makes the launcher end in argument parsing
\* without resolving an executable or spawning a child: with a usage error
\* (status 2), or with status 0 when a help option is given as well and is
\* reached first.
C10_UnknownFlagEndsInParsing ==
    (\E i \in 1..Len(argv) :
         C10_IsUnknown(argv[i]) /\ C10_BeforePassThrough(i)) =>
        /\ args = None /\ bun_exe = NoString
        /\ attempts = 0 /\ spawned = 0
        /\ pc # "parse_args" =>
               /\ Terminated
               /\ \/ outcome = "usage" /\ exit_status = 2
                  \/ outcome = "help" /\ exit_status = 0
        /\ (Terminated /\ \A j \in 1..Len(argv) : ~C10_IsHelp(argv[j])) =>
               outcome = "usage" /\ exit_status = 2

C10_Witness ==
    /\ Terminated
    /\ argv = <<S_root, S_x, S_v>>
    /\ outcome = "usage" /\ exit_status = 2

====
